---- MODULE Spec2Model ----
(***************************************************************************)
(* Coverage decision engine of the vehicle-insurance recommender           *)
(* (app/services/insurance_engine.py, class InsuranceEngine).              *)
(*                                                                         *)
(* One engine object per request: the constructor validates the vehicle    *)
(* age and anchors the coverage profile, apply_questionnaire shifts it,    *)
(* reduce_premium downgrades it to a budget ceiling, and the derivations   *)
(* (premium, radar scores, economy plan, plan diff) read it.               *)
(***************************************************************************)
EXTENDS Integers, Sequences, FiniteSets, TLC

(***************************************************************************)
(* Bounds of the explored input space.                                     *)
(***************************************************************************)
\* registration years run from AgeSlack years after the current year
\* (age -AgeSlack) to AgeSlack years before the oldest accepted year
AgeSlack == 2
\* most questionnaire categories answered in the runs that follow
\* reduce_premium one loop iteration at a time
MaxAnswered == 2
\* the same for the runs that check that reduce_premium returns
MaxAnsweredFair == 1
\* number of budget ceilings above the unreachable ceiling 1
NumTargets == 1
\* the number of different derivations one request calls
MaxDerivations == 3

(***************************************************************************)
(* Coverage codes and the static tables.                                   *)
(***************************************************************************)
CodeOrder == <<"A", "B", "C", "D", "E", "F", "G", "H", "I", "J", "K">>
Codes == {CodeOrder[i] : i \in 1..Len(CodeOrder)}
CoreCodes == {"A", "B", "C", "D"}
BinaryCodes == {"F", "H"}
ForwardCodes == Codes \ {"E"}

\* datetime.now().year
CurrentYear == 2026
\* upper limit of an accepted vehicle age
MaxCarAge == 50

\* per-code maximum tier (app/constants/insurance_rates.py is not part of the
\* sources; E's maximum is the "not covered" tier the basic package anchors)
MAX_INDEX ==
  [A |-> 5, B |-> 5, C |-> 4, D |-> 4, E |-> 5, F |-> 3, G |-> 4, H |-> 1,
   I |-> 3, J |-> 3, K |-> 3]

\* premium per tier for each code; a tier outside the DOMAIN has no premium.
\* Both tables are monotone by polarity: forward codes cost more at higher
\* tiers, the reverse code E costs less at higher tiers.
\* Table 1: every tier 1..max priced, strictly monotone.
RatesDense ==
  [A |-> <<1000, 1300, 1600, 1900, 2200>>,
   B |-> <<800, 1000, 1200, 1400, 1600>>,
   C |-> <<300, 500, 700, 900>>,
   D |-> <<200, 400, 600, 800>>,
   E |-> <<16000, 12000, 8000, 4000, 0>>,
   F |-> <<100, 200, 300>>,
   G |-> <<100, 200, 300, 400>>,
   H |-> <<2500>>,
   I |-> <<100, 200, 300>>,
   J |-> <<100, 200, 300>>,
   K |-> <<500, 1000, 1500>>]
\* Table 2: weakly monotone with ties; the binary code F is priced at its
\* fixed tier only and the "not covered" tier of E has no premium entry.
RatesSparse ==
  [A |-> <<1000, 1000, 1500, 1500, 1500>>,
   B |-> <<800, 800, 800, 900, 900>>,
   C |-> <<300, 300, 300, 300>>,
   D |-> <<100, 200, 300, 400>>,
   E |-> <<9000, 9000, 3000, 3000>>,
   F |-> (3 :> 300),
   G |-> <<50, 100, 150, 200>>,
   H |-> <<2000>>,
   I |-> <<150, 150, 150>>,
   J |-> <<150, 150, 150>>,
   K |-> <<400, 800, 1200>>]

\* order in which reduce_premium downgrades codes
PriorityComfortFirst == <<"H", "F", "K", "J", "I", "G", "E", "D", "C", "B", "A">>
PriorityDamageFirst == <<"E", "A", "B", "C", "D", "F", "G", "H", "I", "J", "K">>

\* compulsory premium by displacement: (threshold, premium), the last
\* threshold is the "no upper bound" sentinel (None, modelled as -1)
COMPULSORY_RATES == <<<<1800, 1000>>, <<-1, 1500>>>>

\* denominator of the budget score
MAX_VOLUNTARY_PREMIUM == 20000

RateTables == {"dense", "sparse"}
Displacements == {1600, 2400}
RegistrationYears ==
  (CurrentYear - MaxCarAge - AgeSlack)..(CurrentYear + AgeSlack)
\* ceiling 1 lies below every compulsory premium and can never be met
Targets == {1} \cup {5000 * i : i \in 1..NumTargets}

VARIABLES
  pc,                \* position of the request in the pipeline
  table,             \* which rate table the deployment is configured with
  registration_year, \* request.profile.car_details.registration_year
  displacement,      \* request.profile.car_details.displacement
  car_age,           \* self.car_age
  package,           \* self.package
  has_indices,       \* whether self.indices has been created
  indices,           \* self.indices
  error,             \* code of the exception the constructor raised, or ""
  qa,                \* the AnalysisQA last applied
  target,            \* target_amount of the last reduce_premium call, or -1
  entry,             \* self.indices on entry of the last reduce_premium call
  steps,             \* downgrade steps made by the last reduce_premium call
  pos,               \* position of reduce_premium's for loop in REDUCE_PRIORITY
  economy,           \* the dict build_economy_plan returned
  diff,              \* the dict compute_plan_diff returned
  radar,             \* the dict calculate_radar returned
  premium,           \* the dict calculate_premium returned
  insurance_code,    \* the string generate_insurance_code returned
  persona_tags,      \* the list generate_persona_tags returned
  recommended_items, \* the list build_items returned
  custom_plan,       \* the list build_custom_plan returned
  derivations,       \* the derivations called on the final profile so far
  has_client,        \* whether openai_service.client is set
  calls,             \* state of each of the two commentary coroutines
  outcomes,          \* how the completion request of each coroutine ended
  ai_commentary,     \* the text generate_commentary returned
  economy_commentary, \* the text generate_economy_commentary returned
  rerun              \* what a second run of the same request produced

\* the request and the configured table
inputs == <<table, registration_year, displacement>>
\* the engine object, apart from self.indices
engine == <<car_age, package, has_indices, error>>
\* the bookkeeping of the reduce_premium call
reduction == <<target, entry, steps, pos>>
\* the derived artifacts
outputs == <<economy, diff, radar>>

\* the derived artifacts of the recommended profile
plans == <<recommended_items, custom_plan, derivations>>
derived == <<premium, insurance_code, persona_tags, plans>>
\* the commentary service and its two calls
service == <<has_client, calls, outcomes, ai_commentary, economy_commentary>>

vars ==
  <<pc, inputs, engine, indices, qa, reduction, outputs, derived, service,
    rerun>>

INSURANCE_RATES == IF table = "dense" THEN RatesDense ELSE RatesSparse
REDUCE_PRIORITY ==
  IF table = "dense" THEN PriorityComfortFirst ELSE PriorityDamageFirst

NoIndices == [k \in Codes |-> 0]
None == "None"
NoSummary == [compulsory |-> 0, voluntary |-> 0, subtotal |-> 0,
              final_amount |-> 0]
NoPlan == [insurance_code |-> <<>>, items |-> <<>>,
           price_summary |-> NoSummary, economy_indices |-> NoIndices]
NoDiff == [changes |-> <<>>, total_savings |-> 0]
NoRadar == [passenger_preference |-> 0, vehicle_protection |-> 0,
            liability_concern |-> 0, service_needs |-> 0,
            budget_profile |-> 0]
NoCode == <<>>
NoTags == <<>>
NoText == <<>>
Commentaries == {"recommended", "economy"}
NoCalls == [c \in Commentaries |-> "idle"]
NoOutcomes == [c \in Commentaries |-> None]

NoRerun ==
  [at |-> None, package |-> "", anchored |-> NoIndices, final |-> NoIndices,
   premium |-> NoSummary, insurance_code |-> NoCode, persona_tags |-> NoTags,
   economy |-> NoPlan, diff |-> NoDiff]

\* nothing derived yet and no commentary requested
Underived ==
  /\ premium = NoSummary
  /\ insurance_code = NoCode
  /\ persona_tags = NoTags
  /\ recommended_items = <<>>
  /\ custom_plan = <<>>
  /\ derivations = {}
  /\ calls = NoCalls
  /\ outcomes = NoOutcomes
  /\ ai_commentary = NoText
  /\ economy_commentary = NoText
  /\ rerun = NoRerun

NoQA == [passenger_preference |-> None, vehicle_protection |-> None,
         liability_concern |-> None, service_needs |-> None,
         budget_profile |-> None]

(***************************************************************************)
(* __init__ and apply_initial_anchoring                                    *)
(***************************************************************************)
DefaultIndices == [k \in Codes |-> IF k \in CoreCodes THEN 3 ELSE 0]

AgeAccepted_NoLowerCheck(age) == ~(age > MaxCarAge)

AgeAccepted(age) == ~(age < 0) /\ ~(age > MaxCarAge)

AnchoredPackage(age) ==
  IF age <= 5 THEN "deluxe" ELSE IF age <= 10 THEN "advanced" ELSE "basic"

\* whether the deluxe package adds theft cover
TheftAnchored_UpToFive(age) == age <= 5

TheftAnchored(age) == age <= 3

\* an advanced package that unlocks I, J and K as the deluxe one does
AnchoredIndices_AdvancedUnlocksAll(age, idx) ==
  IF age <= 10
    THEN [k \in Codes |->
            CASE k = "E" -> IF age <= 5 THEN 2 ELSE 3
              [] k \in {"F", "G", "I", "J", "K"} -> 3
              [] k = "H" -> IF TheftAnchored(age) THEN 1 ELSE idx[k]
              [] OTHER -> idx[k]]
  ELSE [idx EXCEPT !["E"] = 5]

\* a basic package that leaves E as it was
AnchoredIndices_BasicKeepsE(age, idx) ==
  IF age <= 5
    THEN [k \in Codes |->
            CASE k = "E" -> 2
              [] k \in {"F", "G", "I", "J", "K"} -> 3
              [] k = "H" -> IF TheftAnchored(age) THEN 1 ELSE idx[k]
              [] OTHER -> idx[k]]
  ELSE IF age <= 10
    THEN [k \in Codes |->
            CASE k = "E" -> 3
              [] k \in {"F", "G"} -> 3
              [] OTHER -> idx[k]]
  ELSE idx

AnchoredIndices(age, idx) ==
  IF age <= 5
    THEN [k \in Codes |->
            CASE k = "E" -> 2
              [] k \in {"F", "G", "I", "J", "K"} -> 3
              [] k = "H" -> IF TheftAnchored(age) THEN 1 ELSE idx[k]
              [] OTHER -> idx[k]]
  ELSE IF age <= 10
    THEN [k \in Codes |->
            CASE k = "E" -> 3
              [] k \in {"F", "G"} -> 3
              [] OTHER -> idx[k]]
  ELSE [idx EXCEPT !["E"] = 5]

InitRequest(years, disps) ==
  /\ pc = "request"
  /\ table \in RateTables
  /\ registration_year \in years
  /\ displacement \in disps
  /\ car_age = 0
  /\ package = ""
  /\ has_indices = FALSE
  /\ indices = NoIndices
  /\ error = ""
  /\ qa = NoQA
  /\ target = -1
  /\ entry = NoIndices
  /\ steps = 0
  /\ pos = 0
  /\ economy = NoPlan
  /\ diff = NoDiff
  /\ radar = NoRadar
  /\ Underived

\* a deployment with OPENAI_API_KEY configured
InitWith(years, disps) == InitRequest(years, disps) /\ has_client = TRUE

\* the requests of every registration year and displacement
InitYears == InitWith(RegistrationYears, Displacements)

\* one request for each profile anchoring can produce (deluxe with and
\* without theft cover, advanced, basic) and one rejected request
PackageAges == {-1, 2, 4, 8, 12}
Init == InitWith({CurrentYear - a : a \in PackageAges}, {1600})

\* InsuranceEngine(registration_year, displacement)
Construct ==
  /\ pc = "request"
  /\ car_age' = CurrentYear - registration_year
  /\ IF AgeAccepted(car_age')
       THEN /\ pc' = "anchored"
            /\ package' = AnchoredPackage(car_age')
            /\ has_indices' = TRUE
            /\ indices' = AnchoredIndices(car_age', DefaultIndices)
            /\ error' = ""
       ELSE /\ pc' = "rejected"
            /\ package' = ""
            /\ error' = "CAR_DATA_MISMATCH"
            /\ UNCHANGED <<has_indices, indices>>
  /\ UNCHANGED <<inputs, qa, reduction, outputs, derived, service, rerun>>

(***************************************************************************)
(* apply_questionnaire and finalize                                        *)
(***************************************************************************)
PassengerOptions == {"high_passenger_medical", "high_driver_disability",
                     "basic_passenger", "high_driver_medical"}
VehicleOptions == {"repair_perfectionist", "waive_subrogation",
                   "theft_protection", "basic_repair"}
LiabilityOptions == {"high_excess_liability", "high_bodily_injury",
                     "statutory_minimum", "high_property_damage"}
ServiceOptions == {"roadside_assistance_100km", "legal_expense",
                   "consolation_money", "basic_roadside"}
BudgetOptions == {"safety_first", "best_value", "budget_saver", "ai_balanced"}

\* every AnalysisQA: each category holds one of its options or None
AnalysisQA ==
  [passenger_preference : PassengerOptions \cup {None},
   vehicle_protection : VehicleOptions \cup {None},
   liability_concern : LiabilityOptions \cup {None},
   service_needs : ServiceOptions \cup {None},
   budget_profile : BudgetOptions \cup {None}]

\* category 1: passenger preference
\* category 1 with an absent selection read as basic_passenger
ApplyPassenger_AbsentIsBasic(sel, idx) ==
  CASE sel = "high_passenger_medical" -> [idx EXCEPT !["C"] = @ + 1]
    [] sel = "high_driver_disability" -> [idx EXCEPT !["D"] = @ + 1]
    [] sel = "high_driver_medical" -> [idx EXCEPT !["D"] = @ + 1]
    [] OTHER -> [idx EXCEPT !["C"] = @ - 2]

ApplyPassenger(sel, idx) ==
  CASE sel = "high_passenger_medical" -> [idx EXCEPT !["C"] = @ + 1]
    [] sel = "high_driver_disability" -> [idx EXCEPT !["D"] = @ + 1]
    [] sel = "basic_passenger" -> [idx EXCEPT !["C"] = @ - 2]
    [] sel = "high_driver_medical" -> [idx EXCEPT !["D"] = @ + 1]
    [] OTHER -> idx

\* a vehicle-protection category whose basic_repair also lowers G
ApplyVehicle_AlsoLowersG(sel, idx) ==
  CASE sel = "repair_perfectionist" -> [idx EXCEPT !["E"] = @ - 1]
    [] sel = "waive_subrogation" -> [idx EXCEPT !["F"] = 3]
    [] sel = "theft_protection" -> [idx EXCEPT !["H"] = 1]
    [] sel = "basic_repair" -> [idx EXCEPT !["E"] = @ + 2, !["G"] = @ - 1]
    [] OTHER -> idx

\* category 2: vehicle protection
ApplyVehicle(sel, idx) ==
  CASE sel = "repair_perfectionist" -> [idx EXCEPT !["E"] = @ - 1]
    [] sel = "waive_subrogation" -> [idx EXCEPT !["F"] = 3]
    [] sel = "theft_protection" -> [idx EXCEPT !["H"] = 1]
    [] sel = "basic_repair" -> [idx EXCEPT !["E"] = @ + 2]
    [] OTHER -> idx

\* a liability category whose statutory_minimum lowers A and B by three
ApplyLiability_StatutoryByThree(sel, idx) ==
  CASE sel = "high_excess_liability" -> [idx EXCEPT !["B"] = @ + 2]
    [] sel = "high_bodily_injury" -> [idx EXCEPT !["K"] = 3]
    [] sel = "statutory_minimum" ->
         [idx EXCEPT !["A"] = @ - 3, !["B"] = @ - 3]
    [] sel = "high_property_damage" -> [idx EXCEPT !["A"] = @ + 1]
    [] OTHER -> idx

\* category 3: liability concern
ApplyLiability(sel, idx) ==
  CASE sel = "high_excess_liability" -> [idx EXCEPT !["B"] = @ + 2]
    [] sel = "high_bodily_injury" -> [idx EXCEPT !["K"] = 3]
    [] sel = "statutory_minimum" ->
         [idx EXCEPT !["A"] = @ - 1, !["B"] = @ - 1]
    [] sel = "high_property_damage" -> [idx EXCEPT !["A"] = @ + 1]
    [] OTHER -> idx

\* category 4: service needs
ApplyService(sel, idx) ==
  CASE sel = "roadside_assistance_100km" -> [idx EXCEPT !["G"] = 4]
    [] sel = "legal_expense" -> [idx EXCEPT !["I"] = 3]
    [] sel = "consolation_money" -> [idx EXCEPT !["J"] = 3]
    [] sel = "basic_roadside" -> [idx EXCEPT !["G"] = @ - 1]
    [] OTHER -> idx

ApplyBudget_FloorsEToo(sel, idx) ==
  CASE sel = "safety_first" ->
         [k \in Codes |->
            IF idx[k] > 0
              THEN IF k = "E" THEN idx[k] - 1 ELSE idx[k] + 1
              ELSE idx[k]]
    [] sel = "budget_saver" ->
         [k \in Codes |-> IF idx[k] > 0 THEN 1 ELSE idx[k]]
    [] OTHER -> idx

\* a budget_saver that leaves E at the tier it has
ApplyBudget_SaverKeepsE(sel, idx) ==
  CASE sel = "safety_first" ->
         [k \in Codes |->
            IF idx[k] > 0
              THEN IF k = "E" THEN idx[k] - 1 ELSE idx[k] + 1
              ELSE idx[k]]
    [] sel = "budget_saver" ->
         [k \in Codes |->
            IF idx[k] > 0 /\ k /= "E" THEN 1 ELSE idx[k]]
    [] OTHER -> idx

\* category 5: budget profile, applied to every code that is active
ApplyBudget(sel, idx) ==
  CASE sel = "safety_first" ->
         [k \in Codes |->
            IF idx[k] > 0
              THEN IF k = "E" THEN idx[k] - 1 ELSE idx[k] + 1
              ELSE idx[k]]
    [] sel = "budget_saver" ->
         [k \in Codes |->
            IF idx[k] > 0 THEN IF k = "E" THEN 4 ELSE 1 ELSE idx[k]]
    [] OTHER -> idx

Min(a, b) == IF a <= b THEN a ELSE b
Max(a, b) == IF a >= b THEN a ELSE b

finalize_NoUpperClamp(idx) ==
  [k \in Codes |-> IF idx[k] < 0 THEN 0 ELSE idx[k]]

\* the Boundary Normalizer
finalize(idx) ==
  [k \in Codes |->
     IF idx[k] < 0 THEN 0
     ELSE IF idx[k] > 0 THEN Max(1, Min(MAX_INDEX[k], idx[k]))
     ELSE idx[k]]

\* the profile after categories 1 to 4, before category 5 and finalize
Categories1to4(q, idx) ==
  ApplyService(q.service_needs,
    ApplyLiability(q.liability_concern,
      ApplyVehicle(q.vehicle_protection,
        ApplyPassenger(q.passenger_preference, idx))))

apply_questionnaire(q, idx) ==
  finalize(ApplyBudget(q.budget_profile, Categories1to4(q, idx)))

Answered(q) ==
  Cardinality({f \in DOMAIN q : q[f] /= None})

\* the questionnaires that answer at most MaxAnswered categories
SparseQA == {q \in AnalysisQA : Answered(q) <= MaxAnswered}

FewQA == {q \in AnalysisQA : Answered(q) <= MaxAnsweredFair}

\* engine.apply_questionnaire(request.analysis_qa)
ApplyQuestionnaireFrom(qas) ==
  /\ pc = "anchored"
  /\ \E q \in qas :
       /\ qa' = q
       /\ indices' = apply_questionnaire(q, indices)
  /\ pc' = "questioned"
  /\ UNCHANGED <<inputs, engine, reduction, outputs, derived, service, rerun>>

(***************************************************************************)
(* calculate_premium                                                       *)
(***************************************************************************)
RECURSIVE CompulsoryFrom(_, _)
CompulsoryFrom(i, disp) ==
  IF i > Len(COMPULSORY_RATES)
    THEN COMPULSORY_RATES[Len(COMPULSORY_RATES)][2]
  ELSE IF COMPULSORY_RATES[i][1] = -1 \/ disp <= COMPULSORY_RATES[i][1]
    THEN COMPULSORY_RATES[i][2]
  ELSE CompulsoryFrom(i + 1, disp)

_get_compulsory_premium == CompulsoryFrom(1, displacement)

\* a lookup that charges a tier without rate at the code's first rate
CodePremium_NearestTier(k, v) ==
  IF v > 0
    THEN IF v \in DOMAIN INSURANCE_RATES[k] THEN INSURANCE_RATES[k][v]
         ELSE INSURANCE_RATES[k][CHOOSE t \in DOMAIN INSURANCE_RATES[k] :
                                   \A u \in DOMAIN INSURANCE_RATES[k] : t <= u]
  ELSE 0

\* options[v] when the code is active and the tier has a premium, else nothing
CodePremium(k, v) ==
  IF v > 0 /\ v \in DOMAIN INSURANCE_RATES[k] THEN INSURANCE_RATES[k][v] ELSE 0

RECURSIVE VoluntaryFrom(_, _)
VoluntaryFrom(i, idx) ==
  IF i > Len(CodeOrder) THEN 0
  ELSE CodePremium(CodeOrder[i], idx[CodeOrder[i]]) + VoluntaryFrom(i + 1, idx)

calculate_premium(idx) ==
  LET compulsory == _get_compulsory_premium
      voluntary == VoluntaryFrom(1, idx)
      subtotal == compulsory + voluntary
  IN [compulsory |-> compulsory, voluntary |-> voluntary,
      subtotal |-> subtotal, final_amount |-> subtotal]

\* the profile is final: anchored, or after the questionnaire, or after the
\* budget reduction
ProfileFinal == {"anchored", "questioned", "reduced"}

\* premium = engine.calculate_premium()
CalculatePremium ==
  /\ pc \in ProfileFinal
  /\ premium' = calculate_premium(indices)
  /\ pc' = "priced"
  /\ UNCHANGED <<inputs, engine, indices, qa, reduction, outputs,
                 insurance_code, persona_tags, plans, service, rerun>>

(***************************************************************************)
(* reduce_premium                                                          *)
(***************************************************************************)
\* r = [idx, i, n]: the profile, the position in REDUCE_PRIORITY of the code
\* the for loop is at (past the end once the loop is left), and the number
\* of downgrade steps made so far.
PastPriority == Len(REDUCE_PRIORITY) + 1

\* the while loop of the current code is left: the check after it either
\* leaves the for loop or moves to the next code
AfterWhile(r, tgt) ==
  IF calculate_premium(r.idx).final_amount <= tgt
    THEN [r EXCEPT !.i = PastPriority]
    ELSE [r EXCEPT !.i = @ + 1]

\* the loop body's guards: a code at 0, and E at its maximum, leave the loop
\* without a change
Reducible_EPastMax(code, v) ==
  v > 0 /\ (code = "E" => v <= MAX_INDEX[code])

\* a guard that stops downgrading a code at tier 1
Reducible_OnlyAboveOne(code, v) ==
  v > 1 /\ (code = "E" => v < MAX_INDEX[code])

Reducible(code, v) ==
  v > 0 /\ (code = "E" => v < MAX_INDEX[code])

\* the index after the downgrade step of a code
Downgraded_EUp(code, v) ==
  IF code = "E" THEN v - 1
  ELSE IF code \in {"F", "H"} THEN 0
  ELSE IF v - 1 <= 0 THEN 0 ELSE v - 1

Downgraded_BinaryKept(code, v) ==
  IF code = "E" THEN v + 1
  ELSE IF code \in {"F", "H"} THEN 1
  ELSE IF v - 1 <= 0 THEN 0 ELSE v - 1

\* a downgrade step that lowers a forward code by two tiers
Downgraded_ByTwo(code, v) ==
  IF code = "E" THEN v + 1
  ELSE IF code \in {"F", "H"} THEN 0
  ELSE v - 2

Downgraded(code, v) ==
  IF code = "E" THEN v + 1
  ELSE IF code \in {"F", "H"} THEN 0
  ELSE IF v - 1 <= 0 THEN 0 ELSE v - 1

\* whether the loop body breaks after the downgrade step
BreaksAfterStep_Always(code, v) ==
  code /= "E"

BreaksAfterStep(code, v) ==
  code /= "E" /\ (code \in {"F", "H"} \/ v - 1 <= 0)

\* a while loop that does not look at the premium
ReduceIter_IgnoresCeiling(r, tgt) ==
  LET code == REDUCE_PRIORITY[r.i]
      v == r.idx[code]
      stepped == [r EXCEPT !.idx[code] = Downgraded(code, v), !.n = @ + 1]
  IN IF Reducible(code, v)
       THEN IF BreaksAfterStep(code, v) THEN AfterWhile(stepped, tgt)
            ELSE stepped
       ELSE AfterWhile(r, tgt)

\* one evaluation of the while condition and, when it holds, one pass
\* through the loop body
ReduceIter(r, tgt) ==
  LET code == REDUCE_PRIORITY[r.i]
      v == r.idx[code]
      stepped == [r EXCEPT !.idx[code] = Downgraded(code, v), !.n = @ + 1]
  IN IF calculate_premium(r.idx).final_amount > tgt /\ Reducible(code, v)
       THEN IF BreaksAfterStep(code, v) THEN AfterWhile(stepped, tgt)
            ELSE stepped
       ELSE AfterWhile(r, tgt)

RECURSIVE ReduceLoop(_, _)
ReduceLoop(r, tgt) ==
  IF r.i >= PastPriority THEN r ELSE ReduceLoop(ReduceIter(r, tgt), tgt)

reduce_premium(idx, tgt) ==
  LET r == ReduceLoop([idx |-> idx, i |-> 1, n |-> 0], tgt)
  IN [r EXCEPT !.idx = finalize(r.idx)]

\* engine.reduce_premium(request.target_amount), start to return
ReducePremium ==
  /\ pc \in {"anchored", "questioned"}
  /\ \E t \in Targets :
       \E r \in {reduce_premium(indices, t)} :
          /\ target' = t
          /\ entry' = indices
          /\ indices' = r.idx
          /\ steps' = r.n
  /\ pc' = "reduced"
  /\ UNCHANGED <<inputs, engine, qa, pos, outputs, derived, service, rerun>>

\* the same call, one loop iteration at a time
StartReduce ==
  /\ pc \in {"anchored", "questioned"}
  /\ \E t \in Targets : target' = t
  /\ entry' = indices
  /\ steps' = 0
  /\ pos' = 1
  /\ pc' = "reducing"
  /\ UNCHANGED <<inputs, engine, indices, qa, outputs, derived, service,
                 rerun>>

ReduceIterate ==
  /\ pc = "reducing"
  /\ pos < PastPriority
  /\ \E r \in {ReduceIter([idx |-> indices, i |-> pos, n |-> steps], target)} :
        /\ indices' = r.idx
        /\ pos' = r.i
        /\ steps' = r.n
  /\ UNCHANGED <<pc, inputs, engine, qa, target, entry, outputs, derived, service,
                 rerun>>

ReduceReturn ==
  /\ pc = "reducing"
  /\ pos >= PastPriority
  /\ indices' = finalize(indices)
  /\ pos' = 0
  /\ pc' = "reduced"
  /\ UNCHANGED <<inputs, engine, qa, target, entry, steps, outputs, derived, service,
                 rerun>>

(***************************************************************************)
(* build_economy_plan and compute_plan_diff                                *)
(* The display texts (rate["name"], COVERAGE_AMOUNTS) are left out of the  *)
(* items and change records.                                               *)
(***************************************************************************)
\* an economy plan that floors E to tier 1 as it does every other code
economy_indices_of_EAsForward(idx) ==
  [k \in Codes |-> IF idx[k] > 0 THEN 1 ELSE 0]

economy_indices_of(idx) ==
  [k \in Codes |-> IF idx[k] > 0 THEN IF k = "E" THEN 4 ELSE 1 ELSE 0]

\* INSURANCE_RATES[code]["options"].get(v, 0) if v > 0 else 0
OptionGet(k, v) ==
  IF v > 0 THEN IF v \in DOMAIN INSURANCE_RATES[k]
                  THEN INSURANCE_RATES[k][v] ELSE 0
  ELSE 0

\* an item list that also lists a tier without a premium, at premium 0
RECURSIVE ItemsFrom_ListsUnpriced(_, _)
ItemsFrom_ListsUnpriced(i, idx) ==
  IF i > Len(CodeOrder) THEN <<>>
  ELSE LET code == CodeOrder[i]
           v == idx[code]
       IN IF v <= 0
            THEN ItemsFrom_ListsUnpriced(i + 1, idx)
            ELSE <<[code |-> code, index |-> v,
                    premium |-> OptionGet(code, v)]>>
                 \o ItemsFrom_ListsUnpriced(i + 1, idx)

\* the InsuranceItem list of a profile, in A..K order
RECURSIVE ItemsFrom(_, _)
ItemsFrom(i, idx) ==
  IF i > Len(CodeOrder) THEN <<>>
  ELSE LET code == CodeOrder[i]
           v == idx[code]
       IN IF v <= 0 \/ v \notin DOMAIN INSURANCE_RATES[code]
            THEN ItemsFrom(i + 1, idx)
            ELSE <<[code |-> code, index |-> v,
                    premium |-> INSURANCE_RATES[code][v]]>>
                 \o ItemsFrom(i + 1, idx)

\* a string is modelled as the sequence of its characters
DigitChars == <<"0", "1", "2", "3", "4", "5", "6", "7", "8", "9">>

\* str(n) for n >= 0
RECURSIVE Decimal(_)
Decimal(n) ==
  IF n < 10 THEN <<DigitChars[n + 1]>>
  ELSE Decimal(n \div 10) \o <<DigitChars[(n % 10) + 1]>>

\* "".join(parts)
RECURSIVE Join(_)
Join(parts) == IF parts = <<>> THEN <<>> ELSE Head(parts) \o Join(Tail(parts))

\* a list of parts with an entry for the codes at index 0 as well
RECURSIVE CodePartsFrom_KeepsZero(_, _)
CodePartsFrom_KeepsZero(i, idx) ==
  IF i > Len(CodeOrder) THEN <<>>
  ELSE IF idx[CodeOrder[i]] >= 0
    THEN <<<<CodeOrder[i]>> \o Decimal(idx[CodeOrder[i]])>>
         \o CodePartsFrom_KeepsZero(i + 1, idx)
    ELSE CodePartsFrom_KeepsZero(i + 1, idx)

\* parts: the strings f"{code}{index}" of the active codes, in A..K order
RECURSIVE CodePartsFrom(_, _)
CodePartsFrom(i, idx) ==
  IF i > Len(CodeOrder) THEN <<>>
  ELSE IF idx[CodeOrder[i]] > 0
    THEN <<<<CodeOrder[i]>> \o Decimal(idx[CodeOrder[i]])>>
         \o CodePartsFrom(i + 1, idx)
    ELSE CodePartsFrom(i + 1, idx)

generate_insurance_code(idx) == Join(CodePartsFrom(1, idx))

\* insurance_code = engine.generate_insurance_code()
GenerateInsuranceCode ==
  /\ pc = "priced"
  /\ insurance_code' = generate_insurance_code(indices)
  /\ pc' = "coded"
  /\ UNCHANGED <<inputs, engine, indices, qa, reduction, outputs, premium,
                 persona_tags, plans, service, rerun>>

RECURSIVE SumPremium(_)
SumPremium(items) ==
  IF items = <<>> THEN 0 ELSE Head(items).premium + SumPremium(Tail(items))

build_economy_plan(idx) ==
  LET economy_indices == economy_indices_of(idx)
      items == ItemsFrom(1, economy_indices)
      compulsory == _get_compulsory_premium
      voluntary == SumPremium(items)
      subtotal == compulsory + voluntary
  IN [insurance_code |-> Join(CodePartsFrom(1, economy_indices)),
      items |-> items,
      price_summary |-> [compulsory |-> compulsory, voluntary |-> voluntary,
                         subtotal |-> subtotal, final_amount |-> subtotal],
      economy_indices |-> economy_indices]

\* a diff that leaves out the changes that cost nothing
RECURSIVE ChangesFrom_OnlyPriced(_, _, _)
ChangesFrom_OnlyPriced(i, idx, eco) ==
  IF i > Len(CodeOrder) THEN <<>>
  ELSE LET code == CodeOrder[i]
           d == OptionGet(code, idx[code]) - OptionGet(code, eco[code])
       IN IF idx[code] = eco[code] \/ d = 0
            THEN ChangesFrom_OnlyPriced(i + 1, idx, eco)
            ELSE <<[code |-> code, premium_diff |-> d]>>
                 \o ChangesFrom_OnlyPriced(i + 1, idx, eco)

RECURSIVE ChangesFrom(_, _, _)
ChangesFrom(i, idx, eco) ==
  IF i > Len(CodeOrder) THEN <<>>
  ELSE LET code == CodeOrder[i]
       IN IF idx[code] = eco[code] THEN ChangesFrom(i + 1, idx, eco)
          ELSE <<[code |-> code,
                  premium_diff |->
                    OptionGet(code, idx[code]) - OptionGet(code, eco[code])]>>
               \o ChangesFrom(i + 1, idx, eco)

\* a total that leaves out the own-damage code E
RECURSIVE TotalFrom_WithoutE(_, _)
TotalFrom_WithoutE(i, idx) ==
  IF i > Len(CodeOrder) THEN 0
  ELSE (IF CodeOrder[i] = "E" THEN 0
        ELSE OptionGet(CodeOrder[i], idx[CodeOrder[i]]))
       + TotalFrom_WithoutE(i + 1, idx)

RECURSIVE TotalFrom(_, _)
TotalFrom(i, idx) ==
  IF i > Len(CodeOrder) THEN 0
  ELSE OptionGet(CodeOrder[i], idx[CodeOrder[i]]) + TotalFrom(i + 1, idx)

compute_plan_diff(idx, economy_indices) ==
  [changes |-> ChangesFrom(1, idx, economy_indices),
   total_savings |-> TotalFrom(1, idx) - TotalFrom(1, economy_indices)]

\* economy = engine.build_economy_plan()
BuildEconomyPlan ==
  /\ pc \in ProfileFinal \cup {"coded"}
  /\ economy' = build_economy_plan(indices)
  /\ pc' = "assembled"
  /\ UNCHANGED <<inputs, engine, indices, qa, reduction, diff, radar, derived, service,
                 rerun>>

\* diff = engine.compute_plan_diff(economy["economy_indices"])
ComputePlanDiff ==
  /\ pc = "assembled"
  /\ diff' = compute_plan_diff(indices, economy.economy_indices)
  /\ pc' = "compared"
  /\ UNCHANGED <<inputs, engine, indices, qa, reduction, economy, radar, derived, service,
                 rerun>>

(***************************************************************************)
(* calculate_radar                                                         *)
(* The floats are modelled as exact fractions <<numerator, denominator>>;  *)
(* a fraction with denominator 0 stands for the ZeroDivisionError the      *)
(* division would raise.                                                   *)
(***************************************************************************)
\* random.randint(-2, 2)
JitterAmplitude == 2
Jitters == (0 - JitterAmplitude)..JitterAmplitude
\* the score that stands for a call that raised
RadarFailed == -1

FracAdd(a, b) == <<a[1] * b[2] + b[1] * a[2], a[2] * b[2]>>
\* a / c for an integer c
FracOver(a, c) == <<a[1], a[2] * c>>
FracTimes(a, c) == <<a[1] * c, a[2]>>

normalize(code, index) ==
  IF index <= 0 THEN <<0, 1>>
  ELSE LET max_val == MAX_INDEX[code]
       IN IF max_val <= 1
            THEN (IF index >= 1 THEN <<100, 1>> ELSE <<0, 1>>)
          ELSE IF code \in {"E", "H"}
            THEN <<(max_val - index) * 100, max_val - 1>>
          ELSE <<(index - 1) * 100, max_val - 1>>

\* round(p / q) for q > 0, halves to the even neighbour
RoundHalfEven(p, q) ==
  LET f == p \div q
      rem == p % q
  IN IF 2 * rem < q THEN f
     ELSE IF 2 * rem > q THEN f + 1
     ELSE IF f % 2 = 0 THEN f ELSE f + 1

to_visual_Unclamped(raw, jitter) ==
  IF raw[2] = 0 THEN RadarFailed
  ELSE RoundHalfEven(70 * 100 * raw[2] + 25 * raw[1], 100 * raw[2]) + jitter

to_visual(raw, jitter) ==
  IF raw[2] = 0 THEN RadarFailed
  ELSE LET base == RoundHalfEven(70 * 100 * raw[2] + 25 * raw[1],
                                 100 * raw[2])
       IN Max(70, Min(95, base + jitter))

\* sum and count of the normalized values of the codes of cs that pass keep
RECURSIVE SumNormalized(_, _, _)
SumNormalized(cs, idx, weight) ==
  IF cs = <<>> THEN <<0, 1>>
  ELSE FracAdd(FracTimes(normalize(Head(cs), idx[Head(cs)]), weight[Head(cs)]),
               SumNormalized(Tail(cs), idx, weight))

RECURSIVE SumWeights(_, _)
SumWeights(cs, weight) ==
  IF cs = <<>> THEN 0 ELSE weight[Head(cs)] + SumWeights(Tail(cs), weight)

RECURSIVE ActiveOf(_, _)
ActiveOf(cs, idx) ==
  IF cs = <<>> THEN <<>>
  ELSE IF idx[Head(cs)] > 0 THEN <<Head(cs)>> \o ActiveOf(Tail(cs), idx)
  ELSE ActiveOf(Tail(cs), idx)

UnitWeight == [k \in Codes |-> 1]
\* vehicle_weights, in tenths
vehicle_weights == [k \in Codes |-> IF k = "H" THEN 3 ELSE 10]

passenger_raw(idx) ==
  FracOver(SumNormalized(<<"C", "D">>, idx, UnitWeight), 2)

vehicle_raw(idx) ==
  LET vehicle_pairs == ActiveOf(<<"E", "F", "H">>, idx)
  IN IF vehicle_pairs /= <<>>
       THEN FracOver(SumNormalized(vehicle_pairs, idx, vehicle_weights),
                     SumWeights(vehicle_pairs, vehicle_weights))
       ELSE <<0, 1>>

liability_raw(idx) ==
  LET liability_vals == <<"A", "B">> \o ActiveOf(<<"K">>, idx)
  IN FracOver(SumNormalized(liability_vals, idx, UnitWeight),
              Len(liability_vals))

service_raw(idx) ==
  LET service_vals == ActiveOf(<<"G", "I", "J">>, idx)
  IN IF service_vals /= <<>>
       THEN FracOver(SumNormalized(service_vals, idx, UnitWeight),
                     Len(service_vals))
       ELSE <<0, 1>>

budget_raw(idx) ==
  LET voluntary == VoluntaryFrom(1, idx)
  IN IF MAX_VOLUNTARY_PREMIUM = 0 THEN <<voluntary, 0>>
     ELSE IF voluntary * 100 <= 100 * MAX_VOLUNTARY_PREMIUM
       THEN <<voluntary * 100, MAX_VOLUNTARY_PREMIUM>>
     ELSE <<100, 1>>

\* the scores calculate_radar can return for idx: every dimension draws its
\* own jitter
calculate_radar(idx) ==
  [passenger_preference : {to_visual(passenger_raw(idx), j) : j \in Jitters},
   vehicle_protection : {to_visual(vehicle_raw(idx), j) : j \in Jitters},
   liability_concern : {to_visual(liability_raw(idx), j) : j \in Jitters},
   service_needs : {to_visual(service_raw(idx), j) : j \in Jitters},
   budget_profile : {to_visual(budget_raw(idx), j) : j \in Jitters}]

\* the dicts handed to calculate_radar: the codes of one score dimension take
\* every value from 0 to their maximum while the other codes are all inactive
\* or all at their most protective tier
RadarGroups == {{"C", "D"}, {"E", "F", "H"}, {"A", "B", "K"}, {"G", "I", "J"}}
BestIndices == [k \in Codes |-> IF k \in {"E", "H"} THEN 1 ELSE MAX_INDEX[k]]
RadarBases == {NoIndices, BestIndices}
RadarProfiles ==
  UNION {{[k \in Codes |-> IF k \in g THEN f[k] ELSE b[k]] :
            f \in {h \in [g -> 0..5] : \A k \in g : h[k] <= MAX_INDEX[k]}} :
         <<g, b>> \in RadarGroups \X RadarBases}

InitRadar ==
  /\ pc = "profile"
  /\ table \in RateTables
  /\ registration_year = CurrentYear
  /\ displacement = 1600
  /\ car_age = 0
  /\ package = "deluxe"
  /\ has_indices = TRUE
  /\ indices \in RadarProfiles
  /\ error = ""
  /\ qa = NoQA
  /\ target = -1
  /\ entry = NoIndices
  /\ steps = 0
  /\ pos = 0
  /\ economy = NoPlan
  /\ diff = NoDiff
  /\ radar = NoRadar
  /\ Underived
  /\ has_client = TRUE

\* engine.calculate_radar(idx)
CalculateRadar ==
  /\ pc = "profile"
  /\ radar' \in calculate_radar(indices)
  /\ pc' = "scored"
  /\ UNCHANGED <<inputs, engine, indices, qa, reduction, economy, diff, derived, service,
                 rerun>>

(***************************************************************************)
(* OpenAIService.generate_commentary and generate_economy_commentary       *)
(* A text is modelled by how it was made: <<"generated">> for the stripped *)
(* content of the completion, <<"default", ...>> for a canned text with    *)
(* the values it is formatted from, <<"same">> for the fixed text of an    *)
(* empty diff.  The caller that awaits the two coroutines together is      *)
(* modelled from the specification.                                        *)
(***************************************************************************)
\* how client.chat.completions.create and the reading of its response end
ApiOutcomes ==
  {"success", "RateLimitError", "APIConnectionError", "APIError",
   "Exception"}

\* a try statement without the final except Exception clause
Caught_NoCatchAll(o) ==
  o \in {"RateLimitError", "APIConnectionError", "APIError"}

\* whether one of the except clauses handles the outcome
Caught(o) ==
  o \in {"RateLimitError", "APIConnectionError", "APIError", "Exception"}

Generated == <<"generated">>
SameCommentary == <<"same">>

_get_default_commentary(package_name, age) == <<"default", package_name, age>>

_get_default_economy_commentary(diff_data) ==
  <<"default", Len(diff_data.changes), diff_data.total_savings>>

\* both coroutines are handed to the event loop once the economy plan and
\* the diff exist
IssueCommentary ==
  /\ pc = "compared"
  /\ pc' = "commenting"
  /\ calls' = [c \in Commentaries |-> "started"]
  /\ UNCHANGED <<inputs, engine, indices, qa, reduction, outputs, derived,
                 has_client, outcomes, ai_commentary, economy_commentary,
                 rerun>>

\* generate_commentary up to its await
StartCommentary ==
  /\ pc = "commenting"
  /\ calls["recommended"] = "started"
  /\ IF ~has_client
       THEN /\ ai_commentary' = _get_default_commentary(package, car_age)
            /\ calls' = [calls EXCEPT !["recommended"] = "returned"]
            /\ outcomes' = [outcomes EXCEPT !["recommended"] = "no_client"]
       ELSE /\ calls' = [calls EXCEPT !["recommended"] = "awaiting"]
            /\ UNCHANGED <<ai_commentary, outcomes>>
  /\ UNCHANGED <<pc, inputs, engine, indices, qa, reduction, outputs, derived,
                 has_client, economy_commentary, rerun>>

\* generate_commentary from the end of its await to its return
FinishCommentary ==
  /\ pc = "commenting"
  /\ calls["recommended"] = "awaiting"
  /\ \E o \in ApiOutcomes :
       /\ outcomes' = [outcomes EXCEPT !["recommended"] = o]
       /\ IF o = "success"
            THEN /\ ai_commentary' = Generated
                 /\ calls' = [calls EXCEPT !["recommended"] = "returned"]
          ELSE IF Caught(o)
            THEN /\ ai_commentary' =
                      _get_default_commentary(package, car_age)
                 /\ calls' = [calls EXCEPT !["recommended"] = "returned"]
          ELSE /\ calls' = [calls EXCEPT !["recommended"] = "raised"]
               /\ UNCHANGED ai_commentary
  /\ UNCHANGED <<pc, inputs, engine, indices, qa, reduction, outputs, derived,
                 has_client, economy_commentary, rerun>>

\* a generate_economy_commentary without the test for an empty diff
StartEconomyCommentary_NoEmptyCheck ==
  /\ pc = "commenting"
  /\ calls["economy"] = "started"
  /\ IF ~has_client
       THEN /\ economy_commentary' = _get_default_economy_commentary(diff)
            /\ calls' = [calls EXCEPT !["economy"] = "returned"]
            /\ outcomes' = [outcomes EXCEPT !["economy"] = "no_client"]
     ELSE /\ calls' = [calls EXCEPT !["economy"] = "awaiting"]
          /\ UNCHANGED <<economy_commentary, outcomes>>
  /\ UNCHANGED <<pc, inputs, engine, indices, qa, reduction, outputs, derived,
                 has_client, ai_commentary, rerun>>

\* generate_economy_commentary up to its await
StartEconomyCommentary ==
  /\ pc = "commenting"
  /\ calls["economy"] = "started"
  /\ IF diff.changes = <<>>
       THEN /\ economy_commentary' = SameCommentary
            /\ calls' = [calls EXCEPT !["economy"] = "returned"]
            /\ outcomes' = [outcomes EXCEPT !["economy"] = "no_changes"]
     ELSE IF ~has_client
       THEN /\ economy_commentary' = _get_default_economy_commentary(diff)
            /\ calls' = [calls EXCEPT !["economy"] = "returned"]
            /\ outcomes' = [outcomes EXCEPT !["economy"] = "no_client"]
     ELSE /\ calls' = [calls EXCEPT !["economy"] = "awaiting"]
          /\ UNCHANGED <<economy_commentary, outcomes>>
  /\ UNCHANGED <<pc, inputs, engine, indices, qa, reduction, outputs, derived,
                 has_client, ai_commentary, rerun>>

\* generate_economy_commentary from the end of its await to its return
FinishEconomyCommentary ==
  /\ pc = "commenting"
  /\ calls["economy"] = "awaiting"
  /\ \E o \in ApiOutcomes :
       /\ outcomes' = [outcomes EXCEPT !["economy"] = o]
       /\ IF o = "success"
            THEN /\ economy_commentary' = Generated
                 /\ calls' = [calls EXCEPT !["economy"] = "returned"]
          ELSE IF Caught(o)
            THEN /\ economy_commentary' =
                      _get_default_economy_commentary(diff)
                 /\ calls' = [calls EXCEPT !["economy"] = "returned"]
          ELSE /\ calls' = [calls EXCEPT !["economy"] = "raised"]
               /\ UNCHANGED economy_commentary
  /\ UNCHANGED <<pc, inputs, engine, indices, qa, reduction, outputs, derived,
                 has_client, ai_commentary, rerun>>

\* the caller resumes once both coroutines have ended; an exception of
\* either one would end the request
GatherCommentary ==
  /\ pc = "commenting"
  /\ \A c \in Commentaries : calls[c] \in {"returned", "raised"}
  /\ pc' = IF \E c \in Commentaries : calls[c] = "raised"
             THEN "failed" ELSE "responded"
  /\ UNCHANGED <<inputs, engine, indices, qa, reduction, outputs, derived,
                 service, rerun>>

(***************************************************************************)
(* generate_persona_tags                                                   *)
(* A tag is modelled as a tuple naming what it says, the empty string as   *)
(* the empty tuple.  PERSONA_TAG_MAP belongs to the rate-table module: its *)
(* keys are modelled in two variants, every option of AnalysisQA, or every *)
(* option but the two budget profiles that change nothing.                 *)
(***************************************************************************)
QAFields ==
  <<"passenger_preference", "vehicle_protection", "liability_concern",
    "service_needs", "budget_profile">>

AllOptions ==
  PassengerOptions \cup VehicleOptions \cup LiabilityOptions
    \cup ServiceOptions \cup BudgetOptions

PersonaKeys ==
  IF table = "dense" THEN AllOptions
  ELSE AllOptions \ {"best_value", "ai_balanced"}

PERSONA_TAG_MAP == [o \in PersonaKeys |-> <<"persona", o>>]

\* selections AnalysisQA accepts besides the listed options: the fields are
\* Optional[str] without validation
LooseQA ==
  [passenger_preference : {None, "", "unlisted"},
   vehicle_protection : {None, "", "unlisted"},
   liability_concern : {None, "", "unlisted"},
   service_needs : {None, "", "unlisted"},
   budget_profile : {None, "", "unlisted"}]

\* age buckets that count a six-year-old vehicle as near-new
AgeTag_NearNewUpToSix(age) ==
  IF age <= 3 THEN <<"age", "new">>
  ELSE IF age <= 6 THEN <<"age", "near_new">>
  ELSE IF age <= 10 THEN <<"age", "used">>
  ELSE <<"age", "old">>

AgeTag(age) ==
  IF age <= 3 THEN <<"age", "new">>
  ELSE IF age <= 5 THEN <<"age", "near_new">>
  ELSE IF age <= 10 THEN <<"age", "used">>
  ELSE <<"age", "old">>

\* package_tag.get(self.package, "")
PackageTag(pkg) ==
  IF pkg \in {"deluxe", "advanced", "basic"} THEN <<"package", pkg>>
  ELSE <<>>

\* whether a selection is truthy: neither None nor the empty string
Selected(val) == val /= None /\ val /= ""

\* the tags of the selections, in category order
RECURSIVE QATags(_, _)
QATags(i, q) ==
  IF i > Len(QAFields) THEN <<>>
  ELSE LET field_val == q[QAFields[i]]
       IN IF Selected(field_val) /\ field_val \in DOMAIN PERSONA_TAG_MAP
            THEN <<PERSONA_TAG_MAP[field_val]>> \o QATags(i + 1, q)
            ELSE QATags(i + 1, q)

generate_persona_tags(q) ==
  LET tags == <<AgeTag(car_age), PackageTag(package)>> \o QATags(1, q)
  IN SelectSeq(tags, LAMBDA t : t /= <<>>)

\* persona_tags = engine.generate_persona_tags(request.analysis_qa)
GeneratePersonaTags ==
  /\ pc \in {"anchored", "questioned"}
  /\ persona_tags' = generate_persona_tags(qa)
  /\ pc' = "tagged"
  /\ UNCHANGED <<inputs, engine, indices, qa, reduction, outputs, premium,
                 insurance_code, plans, service, rerun>>

(***************************************************************************)
(* The derivations called on the final profile.  The engine keeps no       *)
(* record of them; each returns a value the caller stores, and the caller  *)
(* may call them in any order and more than once.                          *)
(***************************************************************************)
build_items(idx) == ItemsFrom(1, idx)

\* the AdjustableItem list, in A..K order
RECURSIVE AdjustableFrom(_, _)
AdjustableFrom(i, idx) ==
  IF i > Len(CodeOrder) THEN <<>>
  ELSE LET code == CodeOrder[i]
           min_val == IF code \in {"A", "B", "C", "D"} THEN 1 ELSE 0
       IN IF code \notin DOMAIN INSURANCE_RATES
            THEN AdjustableFrom(i + 1, idx)
            ELSE <<[code |-> code, current_index |-> idx[code],
                    min |-> min_val, max |-> MAX_INDEX[code]]>>
                 \o AdjustableFrom(i + 1, idx)

build_custom_plan(idx) == AdjustableFrom(1, idx)

\* a derivation is called on a final profile; at most MaxDerivations
\* different ones are called for one request
Called(name) ==
  /\ pc \in ProfileFinal \cup {"deriving"}
  /\ name \in derivations \/ Cardinality(derivations) < MaxDerivations
  /\ derivations' = derivations \cup {name}
  /\ pc' = "deriving"

\* engine.calculate_premium()
DerivePremium ==
  /\ Called("calculate_premium")
  /\ premium' = calculate_premium(indices)
  /\ UNCHANGED <<inputs, engine, indices, qa, reduction, outputs,
                 insurance_code, persona_tags, recommended_items, custom_plan,
                 service, rerun>>

\* the scores of calculate_radar when all five dimensions draw jitter j
radar_drawn(idx, j) ==
  [passenger_preference |-> to_visual(passenger_raw(idx), j),
   vehicle_protection |-> to_visual(vehicle_raw(idx), j),
   liability_concern |-> to_visual(liability_raw(idx), j),
   service_needs |-> to_visual(service_raw(idx), j),
   budget_profile |-> to_visual(budget_raw(idx), j)]

\* engine.calculate_radar(); the five draws are taken equal here, every
\* combination of draws is followed by CalculateRadar
DeriveRadar ==
  /\ Called("calculate_radar")
  /\ \E j \in Jitters : radar' = radar_drawn(indices, j)
  /\ UNCHANGED <<inputs, engine, indices, qa, reduction, economy, diff,
                 premium, insurance_code, persona_tags, recommended_items,
                 custom_plan, service, rerun>>

\* engine.generate_insurance_code()
DeriveInsuranceCode ==
  /\ Called("generate_insurance_code")
  /\ insurance_code' = generate_insurance_code(indices)
  /\ UNCHANGED <<inputs, engine, indices, qa, reduction, outputs, premium,
                 persona_tags, recommended_items, custom_plan, service, rerun>>

\* engine.build_items()
DeriveItems ==
  /\ Called("build_items")
  /\ recommended_items' = build_items(indices)
  /\ UNCHANGED <<inputs, engine, indices, qa, reduction, outputs, premium,
                 insurance_code, persona_tags, custom_plan, service, rerun>>

\* an economy plan built in the profile itself
DeriveEconomyPlan_InPlace ==
  /\ Called("build_economy_plan")
  /\ economy' = build_economy_plan(indices)
  /\ indices' = economy'.economy_indices
  /\ UNCHANGED <<inputs, engine, qa, reduction, diff, radar, premium,
                 insurance_code, persona_tags, recommended_items, custom_plan,
                 service, rerun>>

\* engine.build_economy_plan()
DeriveEconomyPlan ==
  /\ Called("build_economy_plan")
  /\ economy' = build_economy_plan(indices)
  /\ UNCHANGED <<inputs, engine, indices, qa, reduction, diff, radar, premium,
                 insurance_code, persona_tags, recommended_items, custom_plan,
                 service, rerun>>

\* engine.compute_plan_diff(economy["economy_indices"])
DerivePlanDiff ==
  /\ "build_economy_plan" \in derivations
  /\ Called("compute_plan_diff")
  /\ diff' = compute_plan_diff(indices, economy.economy_indices)
  /\ UNCHANGED <<inputs, engine, indices, qa, reduction, economy, radar,
                 premium, insurance_code, persona_tags, recommended_items,
                 custom_plan, service, rerun>>

\* engine.build_custom_plan()
DeriveCustomPlan ==
  /\ Called("build_custom_plan")
  /\ custom_plan' = build_custom_plan(indices)
  /\ UNCHANGED <<inputs, engine, indices, qa, reduction, outputs, premium,
                 insurance_code, persona_tags, recommended_items, service,
                 rerun>>

\* engine.generate_persona_tags(request.analysis_qa)
DerivePersonaTags ==
  /\ Called("generate_persona_tags")
  /\ persona_tags' = generate_persona_tags(qa)
  /\ UNCHANGED <<inputs, engine, indices, qa, reduction, outputs, premium,
                 insurance_code, recommended_items, custom_plan, service,
                 rerun>>

(***************************************************************************)
(* A second run of the same request: a new InsuranceEngine is built from   *)
(* the same registration year and displacement and is taken through the    *)
(* same questionnaire and budget ceiling and through every derivation.     *)
(***************************************************************************)
\* an engine object kept from the first run instead of a new one
FreshProfile_Reused == indices

\* self.indices of a newly constructed engine
FreshProfile ==
  AnchoredIndices(CurrentYear - registration_year, DefaultIndices)

RunAgain ==
  LET anchored == FreshProfile
      questioned == IF qa /= NoQA THEN apply_questionnaire(qa, anchored)
                    ELSE anchored
      final == IF target /= -1 THEN reduce_premium(questioned, target).idx
               ELSE questioned
      eco == build_economy_plan(final)
  IN [at |-> pc,
      package |-> AnchoredPackage(CurrentYear - registration_year),
      anchored |-> anchored,
      final |-> final,
      premium |-> calculate_premium(final),
      insurance_code |-> generate_insurance_code(final),
      persona_tags |-> generate_persona_tags(qa),
      economy |-> eco,
      diff |-> compute_plan_diff(final, eco.economy_indices)]

\* the stages of a request whose engine was constructed
Stages ==
  {"anchored", "questioned", "reduced", "priced", "coded", "assembled",
   "compared", "tagged"}

Replay ==
  /\ pc \in Stages
  /\ rerun' = RunAgain
  /\ pc' = "replayed"
  /\ UNCHANGED <<inputs, engine, indices, qa, reduction, outputs, derived,
                 service>>

ApplyQuestionnaire == ApplyQuestionnaireFrom(AnalysisQA)

ApplyAnyQuestionnaire == ApplyQuestionnaireFrom(AnalysisQA \cup LooseQA)

ApplySparseQuestionnaire == ApplyQuestionnaireFrom(SparseQA)

ApplyFewQuestionnaire == ApplyQuestionnaireFrom(FewQA)

\* the request pipeline: construction, optional questionnaire, optional
\* budget reduction, then the economy plan and its diff
Next ==
  Construct \/ ApplyQuestionnaire \/ ReducePremium \/ BuildEconomyPlan
    \/ ComputePlanDiff

\* construction and questionnaire only
NextYears == Construct \/ ApplyQuestionnaire

\* the pipeline with reduce_premium followed through its loop
NextSteps ==
  Construct \/ ApplySparseQuestionnaire \/ StartReduce \/ ReduceIterate
    \/ ReduceReturn

Spec == Init /\ [][Next]_vars

SpecYears == InitYears /\ [][NextYears]_vars

SpecSteps == Init /\ [][NextSteps]_vars

\* calculate_radar applied to the dicts of RadarProfiles
NextRadar == CalculateRadar

SpecRadar == InitRadar /\ [][NextRadar]_vars

\* the iterations of reduce_premium's loops are sequential code: an enabled
\* iteration, and the return after the last one, is eventually taken
NextStepsFair ==
  Construct \/ ApplyFewQuestionnaire \/ StartReduce \/ ReduceIterate
    \/ ReduceReturn

SpecStepsFair ==
  /\ Init
  /\ [][NextStepsFair]_vars
  /\ WF_vars(ReduceIterate)
  /\ WF_vars(ReduceReturn)

\* a deployment with or without OPENAI_API_KEY
InitCommentary ==
  /\ InitRequest({CurrentYear - a : a \in PackageAges}, {1600})
  /\ has_client \in BOOLEAN

\* the request up to its two commentaries, without a budget target
NextCommentary ==
  Construct \/ ApplyFewQuestionnaire \/ BuildEconomyPlan \/ ComputePlanDiff
    \/ IssueCommentary \/ StartCommentary \/ FinishCommentary
    \/ StartEconomyCommentary \/ FinishEconomyCommentary \/ GatherCommentary

SpecCommentary == InitCommentary /\ [][NextCommentary]_vars

\* the pipeline followed by the premium, the code string and the economy
\* plan
NextDerive ==
  Construct \/ ApplySparseQuestionnaire \/ ReducePremium \/ CalculatePremium
    \/ GenerateInsuranceCode \/ BuildEconomyPlan

SpecDerive == Init /\ [][NextDerive]_vars

\* a request taken through every stage and run a second time
NextReplay ==
  Construct \/ ApplyFewQuestionnaire \/ ReducePremium \/ CalculatePremium
    \/ GenerateInsuranceCode \/ GeneratePersonaTags \/ BuildEconomyPlan
    \/ ComputePlanDiff \/ Replay

SpecReplay == Init /\ [][NextReplay]_vars

\* every registration year, any questionnaire, then the persona tags
InitTags == InitWith(RegistrationYears, {1600})

NextTags == Construct \/ ApplyAnyQuestionnaire \/ GeneratePersonaTags

SpecTags == InitTags /\ [][NextTags]_vars

\* the pipeline followed by the itemized lines, the price summary, the
\* economy plan and the custom plan
NextPlans ==
  Construct \/ ApplySparseQuestionnaire \/ ReducePremium \/ DeriveItems
    \/ DerivePremium \/ DeriveEconomyPlan \/ DeriveCustomPlan

SpecPlans == Init /\ [][NextPlans]_vars

\* a used and an old vehicle
PureAges == {4, 12}
InitPure == InitWith({CurrentYear - a : a \in PureAges}, {1600})

\* every derivation, in any order, on an anchored, questioned or reduced
\* profile
NextPure ==
  Construct \/ ApplyFewQuestionnaire \/ ReducePremium \/ DerivePremium
    \/ DeriveRadar
    \/ DeriveInsuranceCode \/ DeriveItems \/ DeriveEconomyPlan
    \/ DerivePlanDiff \/ DeriveCustomPlan \/ DerivePersonaTags

SpecPure == InitPure /\ [][NextPure]_vars

\* every registration year and questionnaire, then the economy plan and its
\* diff, without a budget ceiling
NextSaver ==
  Construct \/ ApplyQuestionnaire \/ BuildEconomyPlan \/ ComputePlanDiff

SpecSaver == InitTags /\ [][NextSaver]_vars

(***************************************************************************)
(* Properties                                                              *)
(***************************************************************************)
InRange(idx) ==
  \A k \in Codes : idx[k] = 0 \/ (1 <= idx[k] /\ idx[k] <= MAX_INDEX[k])

HasActive(idx) == \E k \in Codes : idx[k] > 0

\* the profile the constructor anchored for the current vehicle age
Anchored == AnchoredIndices(car_age, DefaultIndices)

\* the profile just before finalize runs in apply_questionnaire
BeforeFinalize == ApplyBudget(qa.budget_profile, Categories1to4(qa, Anchored))

\* C1: whenever finalize has just run (at the end of apply_questionnaire and
\* at the end of reduce_premium) every code's index is 0 or within
\* [1, MAX_INDEX[code]].
C1_TierRange ==
  pc \in {"questioned", "reduced"} => InRange(indices)

\* a questionnaire that pushed B above its maximum tier before finalize
C1_Witness ==
  /\ pc = "questioned"
  /\ BeforeFinalize["B"] > MAX_INDEX["B"]
  /\ indices["B"] = MAX_INDEX["B"]

\* C2: for a recommended profile with at least one active code the economy
\* plan's total premium is at most the recommended total premium, and the
\* diff's total_savings is not negative.
C2_EconomyNotDearer ==
  (pc = "compared" /\ HasActive(indices)) =>
     /\ economy.price_summary.final_amount
          <= calculate_premium(indices).final_amount
     /\ diff.total_savings >= 0

\* the reducible range of a profile: the index of every forward code that is
\* not binary, one per active binary code, and MAX_INDEX[E] minus E's index
RECURSIVE RangeFrom(_, _)
RangeFrom(i, idx) ==
  IF i > Len(CodeOrder) THEN 0
  ELSE LET k == CodeOrder[i]
       IN (IF k = "E" THEN MAX_INDEX[k] - idx[k]
           ELSE IF k \in BinaryCodes THEN (IF idx[k] > 0 THEN 1 ELSE 0)
           ELSE idx[k])
          + RangeFrom(i + 1, idx)

ReducibleRange(idx) == RangeFrom(1, idx)

\* C3: reduce_premium terminates for every starting profile and ceiling, and
\* it makes at most as many downgrade steps as the reducible range of the
\* profile it was given.
C3_ReduceTerminates ==
  /\ [](pc \in {"reducing", "reduced"} => steps <= ReducibleRange(entry))
  /\ (pc = "reducing" ~> pc = "reduced")

\* a call with the unreachable ceiling that returned after using the whole
\* reducible range
C3_Witness ==
  /\ pc = "reduced"
  /\ target = 1
  /\ steps > 0
  /\ steps = ReducibleRange(entry)

\* C4: no iteration of reduce_premium, and not the final normalization,
\* raises the total premium, so the premium on return is not above the
\* premium on entry.
C4_PremiumNonIncreasing ==
  [][pc = "reducing" =>
       /\ calculate_premium(indices').final_amount
            <= calculate_premium(indices).final_amount
       /\ calculate_premium(indices').final_amount
            <= calculate_premium(entry').final_amount]_vars

\* a call in progress whose downgrade steps have lowered the premium
C4_Witness ==
  /\ pc = "reducing"
  /\ steps > 1
  /\ calculate_premium(indices).final_amount
       < calculate_premium(entry).final_amount

\* C5: on return from reduce_premium E's index is not below its entry index,
\* no forward code's index is above its entry index, a binary code is
\* unchanged or 0, and a code that was 0 on entry is 0.
C5_NeverImproves ==
  pc = "reduced" =>
     /\ indices["E"] >= entry["E"]
     /\ \A k \in ForwardCodes : indices[k] <= entry[k]
     /\ \A k \in BinaryCodes : indices[k] = entry[k] \/ indices[k] = 0
     /\ \A k \in Codes : entry[k] = 0 => indices[k] = 0

\* a call that worsened E, lowered a forward code and removed a binary code
C5_Witness ==
  /\ pc = "reduced"
  /\ indices["E"] > entry["E"]
  /\ \E k \in ForwardCodes \ BinaryCodes :
       0 < indices[k] /\ indices[k] < entry[k]
  /\ \E k \in BinaryCodes : entry[k] > 0 /\ indices[k] = 0

Exhausted(idx, k) ==
  IF k = "E" THEN idx[k] = MAX_INDEX[k] \/ idx[k] = 0 ELSE idx[k] = 0

\* C6: when reduce_premium returns, the total premium is at most the ceiling
\* or every code of the priority order is exhausted; in that case the call
\* has returned normally without an error.
C6_MetOrExhausted ==
  pc = "reduced" =>
     \/ calculate_premium(indices).final_amount <= target
     \/ /\ \A i \in 1..Len(REDUCE_PRIORITY) :
             Exhausted(indices, REDUCE_PRIORITY[i])
        /\ error = ""

\* a call whose ceiling was not met: every code is exhausted
C6_Witness ==
  /\ pc = "reduced"
  /\ calculate_premium(indices).final_amount > target
  /\ HasActive(entry)
  /\ \A k \in Codes : Exhausted(indices, k)

RadarDimensions == DOMAIN NoRadar

\* C7: for a profile whose indices are 0 or within range, and for every
\* choice of the jitter of each dimension, each of the five scores of
\* calculate_radar is an integer in [70, 95]; no call fails.
C7_RadarRange ==
  pc = "scored" =>
     \A d \in RadarDimensions :
        radar[d] /= RadarFailed /\ radar[d] \in 70..95

\* the all-zero profile scored at the lower end of the range
C7_Witness ==
  /\ pc = "scored"
  /\ indices = NoIndices
  /\ \A d \in RadarDimensions : radar[d] \in 70..72
  /\ radar.service_needs = 72

\* C8: construction succeeds exactly when the vehicle age is in [0, 50];
\* otherwise CarDataMismatchException is raised and no profile exists.
C8_AgeValidation ==
  pc /= "request" =>
     LET age == CurrentYear - registration_year
     IN /\ car_age = age
        /\ (0 <= age /\ age <= 50) =>
             (pc /= "rejected" /\ error = "" /\ has_indices)
        /\ (age < 0 \/ age > 50) =>
             /\ pc = "rejected"
             /\ error = "CAR_DATA_MISMATCH"
             /\ ~has_indices
             /\ package = ""

\* a request rejected for a vehicle that is 51 years old
C8_Witness ==
  /\ pc = "rejected"
  /\ CurrentYear - registration_year = 51
  /\ error = "CAR_DATA_MISMATCH"

\* C9: with budget_saver selected, after apply_questionnaire every code that
\* was active before category 5 is at tier 1, or at tier 4 for E, whatever
\* value it had, and every code that was not active is 0.
C9_BudgetSaverFloor ==
  (pc = "questioned" /\ qa.budget_profile = "budget_saver") =>
     \A k \in Codes :
        IF Categories1to4(qa, Anchored)[k] > 0
          THEN indices[k] = (IF k = "E" THEN 4 ELSE 1)
          ELSE indices[k] = 0

\* budget_saver on a profile whose E was above its maximum and whose G was
\* negative before category 5
C9_Witness ==
  /\ pc = "questioned"
  /\ qa.budget_profile = "budget_saver"
  /\ Categories1to4(qa, Anchored)["E"] > MAX_INDEX["E"]
  /\ Categories1to4(qa, Anchored)["G"] < 0
  /\ Categories1to4(qa, Anchored)["B"] = 5
  /\ indices["E"] = 4
  /\ indices["B"] = 1

\* C10: for a vehicle age in [0, 5] anchoring yields package deluxe with A..D
\* at tier 3, E at tier 2, F, G, I, J and K at tier 3, and H at tier 1
\* exactly when the age is at most 3 (H is 0 for ages 4 and 5).
C10_DeluxeAnchoring ==
  (pc = "anchored" /\ 0 <= car_age /\ car_age <= 5) =>
     /\ package = "deluxe"
     /\ \A k \in CoreCodes : indices[k] = 3
     /\ indices["E"] = 2
     /\ \A k \in {"F", "G", "I", "J", "K"} : indices[k] = 3
     /\ indices["H"] = (IF car_age <= 3 THEN 1 ELSE 0)

\* a five-year-old vehicle anchored to deluxe without theft cover
C10_Witness ==
  /\ pc = "anchored"
  /\ car_age = 5
  /\ package = "deluxe"
  /\ indices["H"] = 0

\* C11: for a vehicle age in [6, 10], with no questionnaire and no budget
\* target, the package is advanced and the active codes are exactly A..D,
\* E, F and G, each at tier 3; H, I, J and K are 0.
C11_AdvancedAnchoring ==
  (pc = "anchored" /\ 6 <= car_age /\ car_age <= 10) =>
     /\ package = "advanced"
     /\ \A k \in CoreCodes \cup {"E", "F", "G"} : indices[k] = 3
     /\ \A k \in {"H", "I", "J", "K"} : indices[k] = 0

\* a ten-year-old vehicle anchored to advanced
C11_Witness ==
  /\ pc = "anchored"
  /\ car_age = 10
  /\ package = "advanced"
  /\ indices["E"] = 3
  /\ indices["K"] = 0

\* C12: for a vehicle age in [11, 50] anchoring yields package basic with
\* A..D at tier 3, E at its maximum tier MAX_INDEX[E] and every other code
\* at 0.
C12_BasicAnchoring ==
  (pc = "anchored" /\ 11 <= car_age /\ car_age <= 50) =>
     /\ package = "basic"
     /\ \A k \in CoreCodes : indices[k] = 3
     /\ indices["E"] = MAX_INDEX["E"]
     /\ \A k \in Codes \ (CoreCodes \cup {"E"}) : indices[k] = 0

\* an eleven-year-old vehicle anchored to basic with E not covered
C12_Witness ==
  /\ pc = "anchored"
  /\ car_age = 11
  /\ package = "basic"
  /\ indices["E"] = 5

\* the text a commentary call returns for a given end of its request
CommentaryFor(c, o) ==
  IF o = "success" THEN Generated
  ELSE IF o = "no_changes" THEN SameCommentary
  ELSE IF c = "recommended" THEN _get_default_commentary(package, car_age)
  ELSE _get_default_economy_commentary(diff)

CommentaryOf(c) ==
  IF c = "recommended" THEN ai_commentary ELSE economy_commentary

ActiveCodes(idx) == {k \in Codes : idx[k] > 0}

\* C14: the economy profile is a floor transform of the recommended
\* profile: every code with a positive index becomes tier 1, or tier 4 for
\* E, every code at 0 stays 0, so both profiles have the same active codes;
\* building it leaves the recommended profile as it was.
C14_EconomyFloor ==
  /\ [](pc \in {"assembled", "compared"} =>
          /\ \A k \in Codes :
                economy.economy_indices[k] =
                  (IF indices[k] > 0 THEN (IF k = "E" THEN 4 ELSE 1) ELSE 0)
          /\ ActiveCodes(economy.economy_indices) = ActiveCodes(indices))
  /\ [][pc' = "assembled" => indices' = indices]_vars

\* an economy plan built from a profile with E at 2, a code at its tier 3
\* and a code at 0
C14_Witness ==
  /\ pc = "assembled"
  /\ indices["E"] = 2
  /\ economy.economy_indices["E"] = 4
  /\ indices["A"] = 3
  /\ economy.economy_indices["A"] = 1
  /\ indices["H"] = 0
  /\ economy.economy_indices["H"] = 0

\* position of a code in the A..K order
CodeIndex(k) == CHOOSE i \in 1..Len(CodeOrder) : CodeOrder[i] = k

\* the premium of a code at a tier, 0 for tier 0 and for a tier without rate
TierPremium(k, v) ==
  IF v > 0 /\ v \in DOMAIN INSURANCE_RATES[k] THEN INSURANCE_RATES[k][v]
  ELSE 0

\* C15: compute_plan_diff emits one change record for each code whose
\* recommended and economy tiers differ and none for the others, in A..K
\* order; a record's premium_diff is the code's recommended premium minus
\* its economy premium, and total_savings is the recommended voluntary
\* premium minus the economy voluntary premium.
C15_PlanDiff ==
  pc = "compared" =>
     LET eco == economy.economy_indices
         differing == {k \in Codes : indices[k] /= eco[k]}
         n == Len(diff.changes)
     IN /\ n = Cardinality(differing)
        /\ {diff.changes[i].code : i \in 1..n} = differing
        /\ \A i, j \in 1..n :
              i < j => CodeIndex(diff.changes[i].code)
                         < CodeIndex(diff.changes[j].code)
        /\ \A i \in 1..n :
              LET k == diff.changes[i].code
              IN diff.changes[i].premium_diff =
                   TierPremium(k, indices[k]) - TierPremium(k, eco[k])
        /\ diff.total_savings =
             calculate_premium(indices).voluntary
               - economy.price_summary.voluntary

\* a diff with records, no record for the theft code that both plans hold
\* at tier 1, and a record whose premium_diff is 0
C15_Witness ==
  /\ pc = "compared"
  /\ indices["H"] = 1
  /\ Len(diff.changes) > 1
  /\ \A i \in 1..Len(diff.changes) : diff.changes[i].code /= "H"
  /\ \E i \in 1..Len(diff.changes) : diff.changes[i].premium_diff = 0
  /\ diff.total_savings > 0

\* sum of the premiums of the codes of a set at their tiers in a profile
RECURSIVE PremiumOver(_, _)
PremiumOver(S, idx) ==
  IF S = {} THEN 0
  ELSE LET k == CHOOSE x \in S : TRUE
       IN TierPremium(k, idx[k]) + PremiumOver(S \ {k}, idx)

\* C16: calculate_premium returns voluntary equal to the sum, over the codes
\* with a positive index, of the code's premium at its tier, a tier without
\* rate contributing 0 and raising nothing; subtotal is compulsory plus
\* voluntary and final_amount equals subtotal.
C16_PremiumSum ==
  pc = "priced" =>
     /\ premium.voluntary = PremiumOver(ActiveCodes(indices), indices)
     /\ premium.compulsory = _get_compulsory_premium
     /\ premium.subtotal = premium.compulsory + premium.voluntary
     /\ premium.final_amount = premium.subtotal
     /\ error = ""

\* a premium computed for a profile whose E is at a tier without rate
C16_Witness ==
  /\ pc = "priced"
  /\ indices["E"] > 0
  /\ indices["E"] \notin DOMAIN INSURANCE_RATES["E"]
  /\ premium.voluntary > 0
  /\ premium.final_amount = premium.compulsory + premium.voluntary

\* number a sequence of digit characters stands for
RECURSIVE DigitsValue(_, _)
DigitsValue(str, acc) ==
  IF str = <<>> THEN acc
  ELSE DigitsValue(Tail(str),
                   10 * acc + (CHOOSE d \in 0..9 : DigitChars[d + 1] = Head(str)))

\* the <<code, index>> pairs a code string reads as: each letter with the
\* digits that follow it
RECURSIVE ReadCode(_, _, _)
ReadCode(str, letter, digits) ==
  IF str = <<>>
    THEN IF letter = "" THEN <<>> ELSE <<<<letter, DigitsValue(digits, 0)>>>>
  ELSE IF Head(str) \in Codes
    THEN (IF letter = "" THEN <<>> ELSE <<<<letter, DigitsValue(digits, 0)>>>>)
         \o ReadCode(Tail(str), Head(str), <<>>)
  ELSE ReadCode(Tail(str), letter, Append(digits, Head(str)))

\* the pairs of the active codes of a profile, in A..K order
ActivePairs(idx) ==
  LET act == SelectSeq(CodeOrder, LAMBDA k : idx[k] > 0)
  IN [i \in 1..Len(act) |-> <<act[i], idx[act[i]]>>]

\* C17: the insurance-code string holds one {code}{index} pair for each code
\* with a positive index and none for a code at 0, in the order A..K; the
\* economy plan's code string is the same encoding of the economy profile.
C17_CodeString ==
  /\ pc = "coded" =>
        ReadCode(insurance_code, "", <<>>) = ActivePairs(indices)
  /\ pc = "assembled" =>
        ReadCode(economy.insurance_code, "", <<>>)
          = ActivePairs(economy.economy_indices)

\* both strings produced for a profile with codes at 0: the recommended one
\* reads A..E and the economy one differs from it
C17_Witness ==
  /\ pc = "assembled"
  /\ insurance_code = <<"A", "3", "B", "3", "C", "3", "D", "3", "E", "5">>
  /\ economy.insurance_code
       = <<"A", "1", "B", "1", "C", "1", "D", "1", "E", "4">>

\* the categories whose selection yields a tag, in category order
TaggedFields ==
  SelectSeq(QAFields,
            LAMBDA f : qa[f] \notin {None, ""} /\ qa[f] \in PersonaKeys)

\* C18: generate_persona_tags returns the age-bucket tag (age <= 3 new,
\* <= 5 near-new, <= 10 used, else old), then the package label, then one
\* tag per questionnaire category, in category order, exactly for the
\* categories whose selection is non-empty and a key of PERSONA_TAG_MAP; the
\* list has 2 to 7 entries and none is empty.
C18_PersonaTags ==
  pc = "tagged" =>
     /\ Len(persona_tags) = 2 + Len(TaggedFields)
     /\ Len(persona_tags) \in 2..7
     /\ persona_tags[1] =
          <<"age", CASE car_age <= 3 -> "new"
                     [] car_age \in 4..5 -> "near_new"
                     [] car_age \in 6..10 -> "used"
                     [] OTHER -> "old">>
     /\ persona_tags[2] = <<"package", package>>
     /\ \A i \in 1..Len(TaggedFields) :
           persona_tags[2 + i] = <<"persona", qa[TaggedFields[i]]>>
     /\ \A i \in 1..Len(persona_tags) : persona_tags[i] /= <<>>

\* the tags of a six-year-old vehicle whose questionnaire holds a selection
\* that is not a key, an empty one and two that are keys
C18_Witness ==
  /\ pc = "tagged"
  /\ car_age = 6
  /\ qa.passenger_preference = "unlisted"
  /\ qa.vehicle_protection = ""
  /\ ~(\E f \in {"liability_concern", "service_needs", "budget_profile"} :
         qa[f] \in PersonaKeys)
  /\ persona_tags = <<<<"age", "used">>, <<"package", "advanced">>>>

C20_AbsentNoEffect ==
  (pc = "questioned" /\ qa = NoQA) =>
     /\ 0 <= car_age /\ car_age <= MaxCarAge
     /\ \A k \in Codes : indices[k] = Anchored[k]

\* the empty questionnaire applied to the profile of a fifty-year-old
\* vehicle, whose E is at its maximum tier
C20_Witness ==
  /\ pc = "questioned"
  /\ qa = NoQA
  /\ car_age = 50
  /\ indices["E"] = 5
  /\ indices["A"] = 3

\* the profile the same questionnaire yields without a budget-profile
\* selection
WithoutBudget ==
  apply_questionnaire([qa EXCEPT !.budget_profile = None], Anchored)

\* C21: with safety_first every code's coverage after the questionnaire is
\* at least what the same selections of categories 1 to 4 give without a
\* budget profile: no forward index is lower, E's index is not higher, and
\* every code active without safety_first is active with it.
C21_SafetyFirstNeverWorse ==
  (pc = "questioned" /\ qa.budget_profile = "safety_first") =>
     /\ \A k \in ForwardCodes : indices[k] >= WithoutBudget[k]
     /\ indices["E"] <= WithoutBudget["E"]
     /\ \A k \in Codes : WithoutBudget[k] > 0 => indices[k] > 0

\* position of a code in REDUCE_PRIORITY
PriorityIndex(k) ==
  CHOOSE j \in 1..Len(REDUCE_PRIORITY) : REDUCE_PRIORITY[j] = k

\* C23: reduce_premium follows the priority order: a step changes a code
\* only when every code before it in REDUCE_PRIORITY is exhausted (at 0, or
\* E at MAX_INDEX[E] or 0), and it changes no other code.
C23_PriorityOrder ==
  [][(pc = "reducing" /\ indices' /= indices) =>
       \E k \in Codes :
          /\ indices'[k] /= indices[k]
          /\ \A c \in Codes \ {k} : indices'[c] = indices[c]
          /\ \A j \in 1..(PriorityIndex(k) - 1) :
                Exhausted(indices, REDUCE_PRIORITY[j])]_vars

\* a call that has exhausted the first two codes of the order, both active
\* on entry, and is part-way through a later one
C23_Witness ==
  /\ pc = "reducing"
  /\ entry[REDUCE_PRIORITY[1]] > 0
  /\ entry[REDUCE_PRIORITY[2]] > 0
  /\ Exhausted(indices, REDUCE_PRIORITY[1])
  /\ Exhausted(indices, REDUCE_PRIORITY[2])
  /\ \E j \in 3..Len(REDUCE_PRIORITY) :
        /\ indices[REDUCE_PRIORITY[j]] /= entry[REDUCE_PRIORITY[j]]
        /\ ~Exhausted(indices, REDUCE_PRIORITY[j])

\* C24: reduce_premium never over-reduces: a downgrade step is taken only
\* when the total premium is above the ceiling, and a call entered with the
\* premium at or below the ceiling returns the profile it was given.
C24_NoOverReduction ==
  /\ [][(pc = "reducing" /\ indices' /= indices) =>
          calculate_premium(indices).final_amount > target]_vars
  /\ []((pc = "reduced" /\ calculate_premium(entry).final_amount <= target)
          => (indices = entry /\ steps = 0))

\* a call that met the ceiling after some steps and returned with codes of
\* the order still reducible
C24_Witness ==
  /\ pc = "reduced"
  /\ steps > 0
  /\ calculate_premium(indices).final_amount <= target
  /\ \E k \in Codes : indices[k] > 0 /\ Reducible(k, indices[k])

\* C25: when reduce_premium starts from a profile whose indices are 0 or
\* within [1, MAX_INDEX], the profile after every single downgrade step has
\* every index at 0 or within [1, MAX_INDEX].
C25_InRangeEachStep ==
  (pc = "reducing" /\ InRange(entry)) => InRange(indices)

\* a call in progress that has lowered a forward code to 0 and raised E to
\* its maximum
C25_Witness ==
  /\ pc = "reducing"
  /\ InRange(entry)
  /\ entry["E"] < MAX_INDEX["E"]
  /\ indices["E"] = MAX_INDEX["E"]
  /\ \E k \in ForwardCodes \ BinaryCodes : entry[k] > 1 /\ indices[k] = 0

\* whether two profiles agree on every code outside a set
SameOutside(touched, before, after) ==
  \A k \in Codes \ touched : after[k] = before[k]

\* the profile after each of categories 1 to 4 of the questionnaire
AfterPassenger == ApplyPassenger(qa.passenger_preference, Anchored)

AfterVehicle == ApplyVehicle(qa.vehicle_protection, AfterPassenger)

AfterLiability == ApplyLiability(qa.liability_concern, AfterVehicle)

AfterService == ApplyService(qa.service_needs, AfterLiability)

\* C26: categories 1 to 4 are applied in the order 1, 2, 3, 4 before
\* category 5; category 1 changes only C and D, category 2 only E, F and H,
\* category 3 only A, B and K, category 4 only G, I and J, and a selection
\* that is not an option of its category changes nothing.
C26_CategoryFrames ==
  pc = "questioned" =>
     /\ SameOutside({"C", "D"}, Anchored, AfterPassenger)
     /\ SameOutside({"E", "F", "H"}, AfterPassenger, AfterVehicle)
     /\ SameOutside({"A", "B", "K"}, AfterVehicle, AfterLiability)
     /\ SameOutside({"G", "I", "J"}, AfterLiability, AfterService)
     /\ (qa.passenger_preference \notin PassengerOptions
           => AfterPassenger = Anchored)
     /\ (qa.vehicle_protection \notin VehicleOptions
           => AfterVehicle = AfterPassenger)
     /\ (qa.liability_concern \notin LiabilityOptions
           => AfterLiability = AfterVehicle)
     /\ (qa.service_needs \notin ServiceOptions
           => AfterService = AfterLiability)
     /\ indices = finalize(ApplyBudget(qa.budget_profile, AfterService))

\* a questionnaire with a selection in each of categories 1 to 4 that moves
\* its codes, followed by the uniform floor of category 5
C26_Witness ==
  /\ pc = "questioned"
  /\ qa.passenger_preference = "basic_passenger"
  /\ qa.vehicle_protection = "basic_repair"
  /\ qa.liability_concern = "high_excess_liability"
  /\ qa.service_needs = "roadside_assistance_100km"
  /\ qa.budget_profile = "budget_saver"
  /\ indices["G"] = 1
  /\ indices["E"] = 4

\* C28: after the questionnaire stage, with no budget reduction, each of the
\* core codes A, B, C and D has index >= 1, for every vehicle age in
\* [0, 50] and every combination of selections.
C28_CoreKept ==
  pc = "questioned" =>
     /\ 0 <= car_age /\ car_age <= MaxCarAge
     /\ \A k \in {"A", "B", "C", "D"} : indices[k] >= 1

\* the questionnaire that lowers the most core codes: C by two and A and B
\* by one each
C28_Witness ==
  /\ pc = "questioned"
  /\ qa.passenger_preference = "basic_passenger"
  /\ qa.liability_concern = "statutory_minimum"
  /\ qa.budget_profile = None
  /\ indices["C"] = Anchored["C"] - 2
  /\ indices["A"] = Anchored["A"] - 1

RECURSIVE SumDiff(_)
SumDiff(changes) ==
  IF changes = <<>> THEN 0
  ELSE Head(changes).premium_diff + SumDiff(Tail(changes))

\* C29: the total_savings of the plan diff equals the sum of premium_diff
\* over its change records, and equals the recommended plan's voluntary
\* premium minus the economy plan's voluntary premium.
C29_DiffConsistent ==
  pc = "compared" =>
     /\ diff.total_savings = SumDiff(diff.changes)
     /\ diff.total_savings
          = calculate_premium(indices).voluntary
              - economy.price_summary.voluntary

\* a diff with a change in E and in at least two other codes, together
\* saving money
C29_Witness ==
  /\ pc = "compared"
  /\ Len(diff.changes) >= 3
  /\ \E i \in 1..Len(diff.changes) : diff.changes[i].code = "E"
  /\ diff.total_savings > 0

\* C22: in the custom plan built from any final profile (anchoring, optional
\* questionnaire, optional budget reduction) every adjustable item has
\* min <= current_index <= max, min being 1 for A..D and 0 otherwise and max
\* being MAX_INDEX[code]; a core code is never exposed with current tier 0.
C22_CustomPlanInRange ==
  "build_custom_plan" \in derivations =>
     \A i \in 1..Len(custom_plan) :
        /\ custom_plan[i].min
             = (IF custom_plan[i].code \in {"A", "B", "C", "D"} THEN 1 ELSE 0)
        /\ custom_plan[i].max = MAX_INDEX[custom_plan[i].code]
        /\ custom_plan[i].min <= custom_plan[i].current_index
        /\ custom_plan[i].current_index <= custom_plan[i].max

\* C27: every derivation leaves every code's index in the recommended
\* profile unchanged, in whatever order and however often the derivations
\* are called; the economy profile is built without altering it.
C27_DerivationsPure ==
  [][(pc \in ProfileFinal \cup {"deriving"} /\ pc' = "deriving")
       => indices' = indices]_vars

\* three derivations, the economy plan and the radar among them, called on a
\* reduced profile whose economy profile differs from it
C27_Witness ==
  /\ pc = "deriving"
  /\ Cardinality(derivations) = 3
  /\ {"build_economy_plan", "calculate_radar"} \subseteq derivations
  /\ steps > 0
  /\ economy.economy_indices /= indices
  /\ radar /= NoRadar

\* the codes a plan itemizes: index > 0 and a premium at that tier
Itemized(idx) ==
  {k \in Codes : idx[k] > 0 /\ idx[k] \in DOMAIN INSURANCE_RATES[k]}

\* whether items lists the codes of Itemized(idx) once each, in A..K order,
\* with their tier and premium
ItemizedAs(items, idx) ==
  /\ {items[i].code : i \in 1..Len(items)} = Itemized(idx)
  /\ \A i, j \in 1..Len(items) :
        i < j => CodeIndex(items[i].code) < CodeIndex(items[j].code)
  /\ \A i \in 1..Len(items) :
        /\ items[i].index = idx[items[i].code]
        /\ items[i].premium = INSURANCE_RATES[items[i].code][items[i].index]

\* C30: for the recommended and for the economy plan, the itemized lines are
\* the codes with index > 0 that have a premium at their tier, in A..K
\* order with that tier and premium, and their premiums add up to the
\* voluntary premium of the plan's price summary.
C30_ItemsMatchSummary ==
  /\ {"build_items", "calculate_premium"} \subseteq derivations =>
        /\ ItemizedAs(recommended_items, indices)
        /\ SumPremium(recommended_items) = premium.voluntary
  /\ "build_economy_plan" \in derivations =>
        /\ ItemizedAs(economy.items, economy.economy_indices)
        /\ SumPremium(economy.items) = economy.price_summary.voluntary

\* both plans itemized for a profile with an active tier that has no premium
\* and with more than three priced codes
C30_Witness ==
  /\ {"build_items", "calculate_premium", "build_economy_plan"}
       \subseteq derivations
  /\ \E k \in Codes : indices[k] > 0 /\ k \notin Itemized(indices)
  /\ Len(recommended_items) > 3
  /\ Len(economy.items) > 3

\* C31: when the questionnaire selects budget_saver and no budget ceiling is
\* given, the economy profile equals the recommended profile code for code,
\* and compute_plan_diff returns no change records and total_savings 0, for
\* every vehicle age in [0, 50] and every selection in categories 1 to 4.
C31_SaverPlansEqual ==
  (pc = "compared" /\ qa.budget_profile = "budget_saver" /\ target = -1) =>
     /\ 0 <= car_age /\ car_age <= MaxCarAge
     /\ \A k \in Codes : economy.economy_indices[k] = indices[k]
     /\ diff.changes = <<>>
     /\ diff.total_savings = 0

\* the diff of a budget_saver questionnaire that answers all of categories 1
\* to 4 for a near-new vehicle, whose E is active
C31_Witness ==
  /\ pc = "compared"
  /\ qa.budget_profile = "budget_saver"
  /\ target = -1
  /\ \A f \in DOMAIN qa : qa[f] /= None
  /\ car_age <= 5
  /\ indices["E"] = 4
  /\ indices["A"] = 1
  /\ diff.changes = <<>>

\* C32: generate_economy_commentary does not invoke the text-generation
\* service when the diff has no change records: it returns the fixed text
\* at once, with or without a client; the service is invoked only when
\* there is a change record and a client exists.
C32_NoCallWithoutChanges ==
  /\ (calls["economy"] = "awaiting" \/ outcomes["economy"] \in ApiOutcomes)
        => (diff.changes /= <<>> /\ has_client)
  /\ (calls["economy"] = "returned" /\ diff.changes = <<>>)
        => /\ economy_commentary = SameCommentary
           /\ outcomes["economy"] = "no_changes"

\* the economy call has returned the fixed text for an empty diff in a
\* deployment that has a client, whose other call is waiting for the
\* service
C32_Witness ==
  /\ pc = "commenting"
  /\ has_client
  /\ diff.changes = <<>>
  /\ HasActive(indices)
  /\ calls["economy"] = "returned"
  /\ economy_commentary = SameCommentary
  /\ calls["recommended"] = "awaiting"
====
